---- MODULE Spec2Model ----
(***************************************************************************)
(* A model of src/src/ssml.py: the SSML parser (parseSSML with its nested  *)
(* parse_node, and parse_attributes), the serializer (ssmlNodeToText) and  *)
(* the escape helpers.                                                     *)
(*                                                                         *)
(* A Python str is a sequence of one-character strings; positions are      *)
(* Python's (0-based), converted where a sequence is indexed.  A Python    *)
(* dict is the sequence of its <<key, value>> pairs in insertion order.    *)
(* None (and the empty string, equally falsy) is <<>>.  A function that    *)
(* can raise returns a record whose err field is <<>> on success and the   *)
(* chain of exception messages (outermost first) otherwise.                *)
(***************************************************************************)
EXTENDS Integers, Sequences, FiniteSets, TLC

VARIABLES ssml, written, pc, result, text, result2

vars == <<ssml, written, pc, result, text, result2>>

---------------------------------------------------------------------------
(* Python str primitives *)

Min(S) == CHOOSE x \in S : \A y \in S : x <= y

Max(S) == CHOOSE x \in S : \A y \in S : y <= x

UpperCase == <<"A","B","C","D","E","F","G","H","I","J","K","L","M","N","O","P","Q","R","S","T","U","V","W","X","Y","Z">>

LowerCase == <<"a","b","c","d","e","f","g","h","i","j","k","l","m","n","o","p","q","r","s","t","u","v","w","x","y","z">>

Digits == <<"0","1","2","3","4","5","6","7","8","9">>

Range(s) == {s[k] : k \in 1..Len(s)}

\* str.isspace() of one character
isspace(c) == c \in {" ", "\t", "\n", "\r", "\f"}

\* str.isalnum() of one character
isalnum(c) == c \in Range(UpperCase) \cup Range(LowerCase) \cup Range(Digits)

lowerChar(c) ==
    IF c \in Range(UpperCase)
    THEN LowerCase[CHOOSE k \in 1..Len(UpperCase) : UpperCase[k] = c]
    ELSE c

\* str.lower()
lower(s) == [k \in 1..Len(s) |-> lowerChar(s[k])]

\* s[a:b] for 0 <= a, with b clamped to len(s)
Slice(s, a, b) == SubSeq(s, a + 1, IF b > Len(s) THEN Len(s) ELSE b)

\* s[i]
At(s, i) == s[i + 1]

\* str.lstrip()
lstrip(s) ==
    LET keep == {k \in 1..Len(s) : ~isspace(s[k])}
    IN  IF keep = {} THEN <<>> ELSE SubSeq(s, Min(keep), Len(s))

\* str.strip()
strip(s) ==
    LET keep == {k \in 1..Len(s) : ~isspace(s[k])}
    IN  IF keep = {} THEN <<>> ELSE SubSeq(s, Min(keep), Max(keep))

\* s.startswith(prefix, i)
startswith(s, prefix, i) ==
    /\ i + Len(prefix) <= Len(s)
    /\ SubSeq(s, i + 1, i + Len(prefix)) = prefix

\* s.endswith(suffix)
endswith(s, suffix) ==
    /\ Len(suffix) <= Len(s)
    /\ SubSeq(s, Len(s) - Len(suffix) + 1, Len(s)) = suffix

\* s.find(sub, start): the lowest index >= start where sub occurs, or -1
find(s, sub, start) ==
    LET at == {i \in start..(Len(s) - Len(sub)) : startswith(s, sub, i)}
    IN  IF at = {} THEN -1 ELSE Min(at)

\* s.rfind(sub): the highest index where sub occurs, or -1
rfind(s, sub) ==
    LET at == {i \in 0..(Len(s) - Len(sub)) : startswith(s, sub, i)}
    IN  IF at = {} THEN -1 ELSE Max(at)

\* sub in s
contains(s, sub) == find(s, sub, 0) # -1

RECURSIVE replaceFrom(_, _, _, _)
replaceFrom(s, old, new, i) ==
    IF i >= Len(s) THEN <<>>
    ELSE IF startswith(s, old, i)
         THEN new \o replaceFrom(s, old, new, i + Len(old))
         ELSE <<At(s, i)>> \o replaceFrom(s, old, new, i + 1)

\* s.replace(old, new) for a non-empty old: left to right, non-overlapping
replace(s, old, new) == replaceFrom(s, old, new, 0)

\* s.split(None, 1): at most two parts, split at the first whitespace run
split1(s) ==
    LET t == lstrip(s)
        ws == {k \in 1..Len(t) : isspace(t[k])}
    IN  IF t = <<>> THEN <<>>
        ELSE IF ws = {} THEN <<t>>
        ELSE LET rest == lstrip(SubSeq(t, Min(ws), Len(t)))
                 first == SubSeq(t, 1, Min(ws) - 1)
             IN  IF rest = <<>> THEN <<first>> ELSE <<first, rest>>

---------------------------------------------------------------------------
(* The node classes *)

NoNode == [kind |-> "None", name |-> <<>>, attributes |-> <<>>,
           children |-> <<>>, text |-> <<>>]

SSMLTag(name, attributes, children) ==
    [kind |-> "SSMLTag", name |-> name, attributes |-> attributes,
     children |-> children, text |-> <<>>]

SSMLText(t) ==
    [kind |-> "SSMLText", name |-> <<>>, attributes |-> <<>>,
     children |-> <<>>, text |-> t]

\* dict[k] = v: a new key goes last, an old key keeps its place
DictSet(d, k, v) ==
    IF \E j \in 1..Len(d) : d[j][1] = k
    THEN [j \in 1..Len(d) |-> IF d[j][1] = k THEN <<k, v>> ELSE d[j]]
    ELSE Append(d, <<k, v>>)

\* dict == dict: the same keys with the same values, in any order
DictEq(d, e) == Range(d) = Range(e)

RECURSIVE NodeEq(_, _)
\* SSMLTag.__eq__ and SSMLText.__eq__
NodeEq(a, b) ==
    IF a.kind = "SSMLText"
    THEN b.kind = "SSMLText" /\ a.text = b.text
    ELSE /\ b.kind = "SSMLTag"
         /\ a.name = b.name
         /\ DictEq(a.attributes, b.attributes)
         /\ Len(a.children) = Len(b.children)
         /\ \A j \in 1..Len(a.children) : NodeEq(a.children[j], b.children[j])

---------------------------------------------------------------------------
(* Escaping *)

unescapeXMLChars(t) ==
    replace(replace(replace(t, <<"&","l","t",";">>, <<"<">>), <<"&","g","t",";">>, <<">">>), <<"&","a","m","p",";">>, <<"&">>)

escapeXMLChars(t) ==
    replace(replace(replace(t, <<"<">>, <<"&","l","t",";">>), <<">">>, <<"&","g","t",";">>), <<"&">>, <<"&","a","m","p",";">>)

---------------------------------------------------------------------------
(* parse_attributes *)

RECURSIVE skipSpace(_, _)
\* while i < n and attr_string[i].isspace(): i += 1
skipSpace(s, i) ==
    IF i < Len(s) /\ isspace(At(s, i)) THEN skipSpace(s, i + 1) ELSE i

RECURSIVE nameEnd(_, _)
\* while i < n and (attr_string[i].isalnum() or attr_string[i] in '-_.:'): i += 1
nameEnd(s, i) ==
    IF i < Len(s) /\ (isalnum(At(s, i)) \/ At(s, i) \in {"-", "_", ".", ":"})
    THEN nameEnd(s, i + 1) ELSE i

RECURSIVE unquotedEnd(_, _)
\* while i < n and not attr_string[i].isspace() and attr_string[i] != '>': i += 1
unquotedEnd(s, i) ==
    IF i < Len(s) /\ ~isspace(At(s, i)) /\ At(s, i) # ">"
    THEN unquotedEnd(s, i + 1) ELSE i

RECURSIVE entityEnd(_, _)
\* while i < n and attr_string[i] != ';': i += 1
entityEnd(s, i) ==
    IF i < Len(s) /\ At(s, i) # ";" THEN entityEnd(s, i + 1) ELSE i

RECURSIVE quotedEnd(_, _, _)
\* the loop over a quoted value: stops at the closing quote or at n
quotedEnd(s, i, quote) ==
    IF i < Len(s) /\ At(s, i) # quote
    THEN IF At(s, i) = "&"
         THEN LET j == entityEnd(s, i + 1)
              IN  IF j >= Len(s) THEN j ELSE quotedEnd(s, j + 1, quote)
         ELSE quotedEnd(s, i + 1, quote)
    ELSE i

AttrOk(attrs) == [err |-> <<>>, attrs |-> attrs]

AttrErr(msg) == [err |-> <<msg>>, attrs |-> <<>>]

RECURSIVE attrLoop(_, _, _)
\* one pass of the outer while loop of parse_attributes, from index i0
attrLoop(s, i0, attrs) ==
    LET n == Len(s)
        name_start == skipSpace(s, i0)
        i1 == nameEnd(s, name_start)
        name == Slice(s, name_start, i1)
        i2 == skipSpace(s, i1)
        i3 == skipSpace(s, i2 + 1)
        quote == At(s, i3)
        uend == unquotedEnd(s, i3)
        qend == quotedEnd(s, i3 + 1, quote)
    IN  IF i0 >= n \/ name_start >= n THEN AttrOk(attrs)
        ELSE IF i1 = name_start THEN AttrErr("Invalid attribute at position")
        ELSE IF i2 >= n \/ At(s, i2) # "=" THEN AttrErr("Expected '=' after attribute name")
        ELSE IF i3 >= n THEN AttrErr("Expected attribute value after '='")
        ELSE IF quote \notin {"\"", "'"}
             THEN attrLoop(s, uend, DictSet(attrs, name, Slice(s, i3, uend)))
        ELSE IF qend >= n \/ At(s, qend) # quote
             THEN AttrErr("Unclosed quote in attribute value")
        ELSE attrLoop(s, qend + 1, DictSet(attrs, name, Slice(s, i3 + 1, qend)))

parse_attributes(attr_string) == attrLoop(attr_string, 0, <<>>)

---------------------------------------------------------------------------
(* parseSSML *)

NodesOk(nodes, pos) == [err |-> <<>>, nodes |-> nodes, pos |-> pos]

NodesErr(err) == [err |-> err, nodes |-> <<>>, pos |-> -1]

\* a flush without the text.strip() test: every buffered run becomes a node
flushTextKeepBlank(nodes, text_buffer) ==
    IF text_buffer # <<>>
    THEN Append(nodes, SSMLText(unescapeXMLChars(text_buffer)))
    ELSE nodes

\* if text_buffer: text = ''.join(text_buffer); if text.strip(): nodes.append(...)
flushText(nodes, text_buffer) ==
    IF text_buffer # <<>> /\ strip(text_buffer) # <<>>
    THEN Append(nodes, SSMLText(unescapeXMLChars(text_buffer)))
    ELSE nodes

\* if expected_closing_tag and closing_tag != expected_closing_tag
closingMismatch(expected_closing_tag, closing_tag) ==
    expected_closing_tag # <<>> /\ closing_tag # expected_closing_tag

RECURSIVE parse_node(_, _, _)
RECURSIVE parseLoop(_, _, _, _, _)
\* the while loop of parse_node and the code after it, from index i
parseLoop(s, i, nodes, text_buffer, expected_closing_tag) ==
    IF i < Len(s)
    THEN IF At(s, i) = "<"
         THEN LET flushed == flushText(nodes, text_buffer)
                  end_tag == find(s, <<">">>, i)
                  closing_tag == lower(strip(strip(Slice(s, i + 2, end_tag))))
                  tag_end == find(s, <<">">>, i)
                  stripped == strip(Slice(s, i + 1, tag_end))
                  is_self_closing == endswith(stripped, <<"/">>)
                  tag_content ==
                      IF is_self_closing
                      THEN strip(Slice(stripped, 0, Len(stripped) - 1))
                      ELSE stripped
                  parts == split1(strip(tag_content))
                  tag_name == lower(parts[1])
                  attr_str == IF Len(parts) > 1 THEN parts[2] ELSE <<>>
                  parsed == IF attr_str # <<>> THEN parse_attributes(attr_str)
                            ELSE AttrOk(<<>>)
                  sub == parse_node(s, tag_end + 1, tag_name)
              IN  IF startswith(s, <<"<","/">>, i)
                  THEN IF end_tag = -1 THEN NodesErr(<<"Unclosed tag">>)
                       ELSE IF closingMismatch(expected_closing_tag, closing_tag)
                            THEN NodesErr(<<"Mismatched tags">>)
                       ELSE NodesOk(flushed, end_tag + 1)
                  ELSE IF tag_end = -1 THEN NodesErr(<<"Unclosed tag">>)
                  ELSE IF parts = <<>> THEN NodesErr(<<"Empty tag">>)
                  ELSE IF parsed.err # <<>>
                       THEN NodesErr(<<"Invalid attributes in tag">> \o parsed.err)
                  ELSE IF is_self_closing
                       THEN parseLoop(s, tag_end + 1,
                                Append(flushed, SSMLTag(tag_name, parsed.attrs, <<>>)),
                                <<>>, expected_closing_tag)
                  ELSE IF sub.err # <<>> THEN sub
                  ELSE parseLoop(s, sub.pos,
                           Append(flushed, SSMLTag(tag_name, parsed.attrs, sub.nodes)),
                           <<>>, expected_closing_tag)
         ELSE parseLoop(s, i + 1, nodes, Append(text_buffer, At(s, i)),
                        expected_closing_tag)
    ELSE IF expected_closing_tag # <<>>
         THEN NodesErr(<<"Missing closing tag">>)
         ELSE NodesOk(flushText(nodes, text_buffer), i)

parse_node(s, pos, expected_closing_tag) ==
    parseLoop(s, pos, <<>>, <<>>, expected_closing_tag)

Parsed(node) == [err |-> <<>>, node |-> node]

Raised(err) == [err |-> err, node |-> NoNode]

\* ssml_lower.lstrip().startswith('<speak') and '</speak>' in ssml_lower
hasSpeakRoot(ssml_lower) ==
    /\ startswith(lstrip(ssml_lower), <<"<","s","p","e","a","k">>, 0)
    /\ contains(ssml_lower, <<"<","/","s","p","e","a","k",">">>)

\* if ' ' in ssml[speak_start:speak_end]
hasRootAttributes(opening) == " " \in Range(opening)

\* the root's attributes, from the opening tag ssml[speak_start:speak_end]
speakAttributes(s, speak_start, speak_end) ==
    LET attr_str == strip(Slice(s, speak_start + 6, speak_end))
    IN  IF hasRootAttributes(Slice(s, speak_start, speak_end))
        THEN IF attr_str # <<>> THEN parse_attributes(attr_str) ELSE AttrOk(<<>>)
        ELSE AttrOk(<<>>)

\* content_end = ssml_lower.rfind('</speak>')
contentEnd(ssml_lower) == rfind(ssml_lower, <<"<","/","s","p","e","a","k",">">>)

\* the body handed to parse_node: ssml[content_start:content_end].strip()
speakContent(s) ==
    LET speak_start == find(lower(s), <<"<","s","p","e","a","k">>, 0)
        speak_end == find(s, <<">">>, speak_start)
    IN  strip(Slice(s, speak_end + 1, contentEnd(lower(s))))

parseSSML(input) ==
    LET s == strip(input)
        ssml_lower == lower(s)
        speak_start == find(ssml_lower, <<"<","s","p","e","a","k">>, 0)
        speak_end == find(s, <<">">>, speak_start)
        content_end == contentEnd(ssml_lower)
        body == parse_node(speakContent(s), 0, <<>>)
        speak_attrs == speakAttributes(s, speak_start, speak_end)
    IN  IF ~hasSpeakRoot(ssml_lower)
        THEN Raised(<<"SSML must be wrapped in a <speak> tag">>)
        ELSE IF speak_end = -1
             THEN Raised(<<"Error parsing SSML", "Invalid SSML: unclosed <speak> tag">>)
        ELSE IF content_end = -1
             THEN Raised(<<"Error parsing SSML", "Invalid SSML: missing closing </speak> tag">>)
        ELSE IF body.err # <<>> THEN Raised(<<"Error parsing SSML">> \o body.err)
        ELSE IF speak_attrs.err # <<>>
             THEN Raised(<<"Error parsing SSML">> \o speak_attrs.err)
        ELSE Parsed(SSMLTag(<<"s","p","e","a","k">>, speak_attrs.attrs, body.nodes))

---------------------------------------------------------------------------
(* ssmlNodeToText *)

RECURSIVE joinAttributes(_, _)
\* " ".join(f'{k}="{escapeXMLChars(str(v))}"' for k, v in node.attributes.items())
joinAttributes(attributes, j) ==
    IF j > Len(attributes) THEN <<>>
    ELSE (IF j > 1 THEN <<" ">> ELSE <<>>)
         \o attributes[j][1] \o <<"=","\"">> \o escapeXMLChars(attributes[j][2]) \o <<"\"">>
         \o joinAttributes(attributes, j + 1)

\* attrs = "" or " " + the joined attributes
attrsText(attributes) ==
    IF attributes # <<>> THEN <<" ">> \o joinAttributes(attributes, 1) ELSE <<>>

\* f"<{node.name}{attrs} />"
selfClosingForm(name, attrs) == <<"<">> \o name \o attrs \o <<" ","/",">">>

\* f"<{node.name}{attrs}>{children}</{node.name}>"
openCloseForm(name, attrs, children) ==
    <<"<">> \o name \o attrs \o <<">">> \o children \o <<"<","/">> \o name \o <<">">>

\* a test without the strip(): only an empty rendering counts as blank
childrenEmpty(children) == children = <<>>

\* if not children.strip(): the rendered children hold no non-whitespace character
childrenBlank(children) == strip(children) = <<>>

RECURSIVE ssmlNodeToText(_)
RECURSIVE joinChildren(_, _)
\* "".join(ssmlNodeToText(child) for child in node.children)
joinChildren(children, j) ==
    IF j > Len(children) THEN <<>>
    ELSE ssmlNodeToText(children[j]) \o joinChildren(children, j + 1)

ssmlNodeToText(node) ==
    IF node.kind = "SSMLText" THEN escapeXMLChars(node.text)
    ELSE IF node.kind = "SSMLTag"
    THEN LET attrs == attrsText(node.attributes)
             children == joinChildren(node.children, 1)
         IN  IF node.children = <<>> THEN selfClosingForm(node.name, attrs)
             ELSE IF childrenBlank(children) THEN selfClosingForm(node.name, attrs)
             ELSE openCloseForm(node.name, attrs, children)
    ELSE <<>>

---------------------------------------------------------------------------
(* The documents handed to parseSSML.  A document is written as a sequence *)
(* of fragments (whole tags, and runs of text between them); ssml is the   *)
(* str the program receives, `written` remembers what was written.         *)

MaxFragments == 4

MaxText == 3

MaxChildren == 2

RECURSIVE writeAttrs(_, _, _)
\* the attributes as written: each <<key, value, quote>>, sep before the first
writeAttrs(attrs, sep, j) ==
    IF j > Len(attrs) THEN <<>>
    ELSE (IF j = 1 THEN sep ELSE <<" ">>)
         \o attrs[j][1] \o <<"=">> \o <<attrs[j][3]>> \o attrs[j][2] \o <<attrs[j][3]>>
         \o writeAttrs(attrs, sep, j + 1)

OpenTag(name, sep, attrs) ==
    [kind |-> "open", name |-> name, attrs |-> attrs,
     chars |-> <<"<">> \o name \o writeAttrs(attrs, sep, 1) \o <<">">>]

SelfClosingTag(name, sep, attrs) ==
    [kind |-> "selfclose", name |-> name, attrs |-> attrs,
     chars |-> <<"<">> \o name \o writeAttrs(attrs, sep, 1) \o <<"/",">">>]

CloseTag(name) ==
    [kind |-> "close", name |-> name, attrs |-> <<>>,
     chars |-> <<"<","/">> \o name \o <<">">>]

TextRun(chars) ==
    [kind |-> "text", name |-> <<>>, attrs |-> <<>>, chars |-> chars]

DQ == "\""

SQ == "'"

\* the opening tags a document may start with
RootTags ==
    { OpenTag(<<"s","p","e","a","k">>, <<" ">>, <<>>),
      OpenTag(<<"S","P","E","A","K">>, <<" ">>, << <<<<"v","e","r","s","i","o","n">>, <<"1",".","0">>, DQ>>, <<<<"l","a","n","g">>, <<"e","n">>, SQ>> >>),
      OpenTag(<<"s","p","e","a","k">>, <<"\t">>, << <<<<"v","e","r","s","i","o","n">>, <<"1",".","0">>, DQ>> >>),
      OpenTag(<<"s","p","e","a","k","e","r">>, <<" ">>, <<>>),
      OpenTag(<<"p">>, <<" ">>, <<>>) }

\* what may follow
BodyFragments ==
    { TextRun(<<"a"," ","&","l","t",";"," ","b">>),
      TextRun(<<" ">>),
      OpenTag(<<"P">>, <<" ">>, << <<<<"a">>, <<"1">>, DQ>>, <<<<"B">>, <<"2">>, SQ>>, <<<<"a">>, <<"3">>, DQ>> >>),
      SelfClosingTag(<<"B","r","e","a","k">>, <<" ">>, << <<<<"T","I","M","E">>, <<"5","0","0","m","s">>, DQ>> >>),
      CloseTag(<<"p">>),
      CloseTag(<<"q">>),
      CloseTag(<<"s","p","e","a","k">>) }

\* the documents of section 8 of the specification
Examples ==
    { << OpenTag(<<"s","p","e","a","k">>, <<" ">>, <<>>), OpenTag(<<"p">>, <<" ">>, <<>>), TextRun(<<"h","i">>),
         CloseTag(<<"q">>), CloseTag(<<"s","p","e","a","k">>) >>,
      << OpenTag(<<"p">>, <<" ">>, <<>>), TextRun(<<"h","i">>), CloseTag(<<"p">>) >>,
      << OpenTag(<<"s","p","e","a","k">>, <<" ">>, <<>>), TextRun(<<" "," ">>),
         SelfClosingTag(<<"b","r","e","a","k">>, <<" ">>, <<>>), TextRun(<<" "," ">>), CloseTag(<<"s","p","e","a","k">>) >>,
      << OpenTag(<<"S","P","E","A","K">>, <<" ">>, <<>>),
         SelfClosingTag(<<"B","r","e","a","k">>, <<" ">>, << <<<<"T","I","M","E">>, <<"5","0","0","m","s">>, DQ>> >>),
         CloseTag(<<"S","P","E","A","K">>) >>,
      << OpenTag(<<"s","p","e","a","k">>, <<" ">>, << <<<<"v","e","r","s","i","o","n">>, <<"1",".","0">>, DQ>>, <<<<"l","a","n","g">>, <<"e","n">>, DQ>> >>),
         TextRun(<<".",".",".">>), CloseTag(<<"s","p","e","a","k">>) >>,
      << OpenTag(<<"s","p","e","a","k">>, <<" ">>, <<>>), TextRun(<<"a"," ","&","l","t",";"," ","b"," ","&","a","m","p",";"," ","c"," ","&","g","t",";"," ","d">>),
         CloseTag(<<"s","p","e","a","k">>) >> }

RECURSIVE Join(_, _)
\* the characters of the fragments w[j..]
Join(w, j) == IF j > Len(w) THEN <<>> ELSE w[j].chars \o Join(w, j + 1)

NoResult == Raised(<<>>)

---------------------------------------------------------------------------
(* The program: a caller writes a document, parses it, renders the tree    *)
(* and parses the rendering again.                                         *)

Init ==
    /\ written \in {<<t>> : t \in RootTags} \cup Examples
    /\ ssml = Join(written, 1)
    /\ pc = "input"
    /\ result = NoResult
    /\ text = <<>>
    /\ result2 = NoResult

\* the document grows by one fragment
Write(f) ==
    /\ pc = "input"
    /\ Len(written) <= MaxFragments
    /\ written' = Append(written, f)
    /\ ssml' = ssml \o f.chars
    /\ UNCHANGED <<pc, result, text, result2>>

\* result = parseSSML(ssml)
Parse ==
    /\ pc = "input"
    /\ result' = parseSSML(ssml)
    /\ pc' = "parsed"
    /\ UNCHANGED <<ssml, written, text, result2>>

\* text = ssmlNodeToText(result)
Render ==
    /\ pc = "parsed"
    /\ result.err = <<>>
    /\ text' = ssmlNodeToText(result.node)
    /\ pc' = "rendered"
    /\ UNCHANGED <<ssml, written, result, result2>>

\* result2 = parseSSML(text)
Reparse ==
    /\ pc = "rendered"
    /\ result2' = parseSSML(text)
    /\ pc' = "reparsed"
    /\ UNCHANGED <<ssml, written, result, text>>

Next ==
    \/ \E f \in BodyFragments : Write(f)
    \/ Parse
    \/ Render
    \/ Reparse

Spec == Init /\ [][Next]_vars

---------------------------------------------------------------------------
(* Text on its own: a run of text is typed, decoded as parse_node decodes  *)
(* it into a Text node, and rendered.                                      *)

TextPieces == { <<"a">>, <<" ">>, <<"&","l","t",";">>, <<"&","g","t",";">>, <<"&","a","m","p",";">> }

InitText ==
    /\ written \in { <<>>, <<TextRun(<<"a"," ","&","l","t",";"," ","b"," ","&","a","m","p",";"," ","c"," ","&","g","t",";"," ","d">>)>> }
    /\ ssml = Join(written, 1)
    /\ pc = "text"
    /\ result = NoResult
    /\ text = <<>>
    /\ result2 = NoResult

TypeText(t) ==
    /\ pc = "text"
    /\ Len(written) < MaxText
    /\ written' = Append(written, TextRun(t))
    /\ ssml' = ssml \o t
    /\ UNCHANGED <<pc, result, text, result2>>

\* SSMLText(unescapeXMLChars(text)), as parse_node builds a Text node
Decode ==
    /\ pc = "text"
    /\ result' = Parsed(SSMLText(unescapeXMLChars(ssml)))
    /\ pc' = "parsed"
    /\ UNCHANGED <<ssml, written, text, result2>>

NextText ==
    \/ \E t \in TextPieces : TypeText(t)
    \/ Decode
    \/ Render

SpecText == InitText /\ [][NextText]_vars

---------------------------------------------------------------------------
(* Trees built by hand, as a caller of ssmlNodeToText may build them.      *)

TagNames == { <<"b","r","e","a","k">>, <<"p">> }

TagAttributes == { <<>>, << <<<<"t","i","m","e">>, <<"5","0","0","m","s">>>> >>, << <<<<"a">>, <<"1">>>>, <<<<"b">>, <<"2">>>> >> }

ChildNodes ==
    { SSMLText(<<>>), SSMLText(<<" ">>), SSMLText(<<" "," "," ">>), SSMLText(<<"\t","\n">>),
      SSMLText(<<"a">>), SSMLText(<<" ","a"," ">>),
      SSMLTag(<<"b","r","e","a","k">>, <<>>, <<>>), SSMLTag(<<"p">>, <<>>, <<SSMLText(<<" ">>)>>) }

InitNode ==
    /\ \E n \in TagNames, a \in TagAttributes : result = Parsed(SSMLTag(n, a, <<>>))
    /\ written = <<>>
    /\ ssml = <<>>
    /\ pc = "parsed"
    /\ text = <<>>
    /\ result2 = NoResult

\* node.children.append(c)
AddChild(c) ==
    /\ pc = "parsed"
    /\ Len(result.node.children) < MaxChildren
    /\ result' = Parsed(SSMLTag(result.node.name, result.node.attributes,
                                Append(result.node.children, c)))
    /\ UNCHANGED <<ssml, written, pc, text, result2>>

NextNode ==
    \/ \E c \in ChildNodes : AddChild(c)
    \/ Render

SpecNode == InitNode /\ [][NextNode]_vars

---------------------------------------------------------------------------
(* What was written, read off `written` without the parser. *)

IsPrefix(a, b) == Len(a) <= Len(b) /\ a = SubSeq(b, 1, Len(a))

IsTagFragment(f) == f.kind \in {"open", "selfclose"}

IsBlank(chars) == \A k \in 1..Len(chars) : isspace(chars[k])

\* the closing root tags among the fragments
SpeakCloses(w) ==
    {j \in 2..Len(w) : w[j].kind = "close" /\ lower(w[j].name) = <<"s","p","e","a","k">>}

\* the document opens with a tag named speak and holds a closing </speak>
WrappedInSpeak(w) ==
    /\ w[1].kind = "open"
    /\ lower(w[1].name) = <<"s","p","e","a","k">>
    /\ SpeakCloses(w) # {}

\* the fragments between the opening root tag and the last </speak>
BodyOf(w) == SubSeq(w, 2, Max(SpeakCloses(w)) - 1)

\* the opening and self-closing tags, in the order written
WrittenTags(w) == SelectSeq(w, IsTagFragment)

RECURSIVE expectedFrom(_, _)
\* written attributes as a mapping: one entry per name, at the place of its
\* first occurrence, with the value written last
expectedFrom(a, j) ==
    IF j > Len(a) THEN <<>>
    ELSE IF \E i \in 1..(j - 1) : a[i][1] = a[j][1] THEN expectedFrom(a, j + 1)
    ELSE << <<a[j][1], a[Max({i \in j..Len(a) : a[i][1] = a[j][1]})][2]>> >>
         \o expectedFrom(a, j + 1)

ExpectedDict(a) == expectedFrom(a, 1)

\* the places where a maximal run of text fragments starts
TextRunStarts(w) ==
    {j \in 1..Len(w) : w[j].kind = "text" /\ (j = 1 \/ w[j - 1].kind # "text")}

RunEnd(w, j) ==
    Max({k \in j..Len(w) : \A m \in j..k : w[m].kind = "text"})

\* the number of runs of text that hold a non-whitespace character
NonBlankRuns(w) ==
    Cardinality({j \in TextRunStarts(w) : ~IsBlank(Join(SubSeq(w, j, RunEnd(w, j)), 1))})

RECURSIVE meetsMismatch(_, _, _)
\* reading the body's tags in order with the stack of open elements (the root
\* speak below them): the first closing tag that does not name the innermost
\* open element.  A closing tag that closes the root ends the reading.
meetsMismatch(b, j, open) ==
    IF j > Len(b) THEN FALSE
    ELSE IF b[j].kind = "open"
         THEN meetsMismatch(b, j + 1, <<lower(b[j].name)>> \o open)
    ELSE IF b[j].kind = "close"
         THEN IF lower(b[j].name) # (IF open = <<>> THEN <<"s","p","e","a","k">> ELSE Head(open))
              THEN TRUE
              ELSE IF open = <<>> THEN FALSE
              ELSE meetsMismatch(b, j + 1, Tail(open))
    ELSE meetsMismatch(b, j + 1, open)

RECURSIVE wellNested(_, _, _)
\* every closing tag of the body names (in any case) the innermost open element
\* and no element is left open
wellNested(b, j, open) ==
    IF j > Len(b) THEN open = <<>>
    ELSE IF b[j].kind = "open"
         THEN wellNested(b, j + 1, <<lower(b[j].name)>> \o open)
    ELSE IF b[j].kind = "close"
         THEN open # <<>> /\ lower(b[j].name) = Head(open)
              /\ wellNested(b, j + 1, Tail(open))
    ELSE wellNested(b, j + 1, open)

\* no element of the document has a body of whitespace alone
NoBlankBodies(w) ==
    \A i, j \in 1..Len(w) :
        (i + 1 < j /\ w[i].kind = "open" /\ w[j].kind = "close")
        => \E k \in (i + 1)..(j - 1) : ~(w[k].kind = "text" /\ IsBlank(w[k].chars))

\* every & of s starts one of &lt; &gt; &amp;
AmpersandsHandled(s) ==
    \A i \in 0..(Len(s) - 1) :
        At(s, i) = "&" =>
            \/ startswith(s, <<"&","l","t",";">>, i)
            \/ startswith(s, <<"&","g","t",";">>, i)
            \/ startswith(s, <<"&","a","m","p",";">>, i)

(* The tree, in document order. *)

RECURSIVE TreeTags(_)
RECURSIVE tagsOf(_, _)
tagsOf(children, j) ==
    IF j > Len(children) THEN <<>>
    ELSE TreeTags(children[j]) \o tagsOf(children, j + 1)

\* the elements of a tree, parents before children
TreeTags(node) ==
    IF node.kind = "SSMLTag" THEN <<node>> \o tagsOf(node.children, 1) ELSE <<>>

RECURSIVE TreeTexts(_)
RECURSIVE textsOf(_, _)
textsOf(children, j) ==
    IF j > Len(children) THEN <<>>
    ELSE TreeTexts(children[j]) \o textsOf(children, j + 1)

\* the contents of the Text nodes of a tree
TreeTexts(node) ==
    IF node.kind = "SSMLText" THEN <<node.text>> ELSE textsOf(node.children, 1)

Returned == pc = "parsed" /\ result.err = <<>>

MissingRoot == <<"SSML must be wrapped in a <speak> tag">>

MismatchedTags == <<"Error parsing SSML", "Mismatched tags">>

---------------------------------------------------------------------------
(* The claims *)

\* C1: round trip. When parseSSML succeeds on a document with no
\* whitespace-only element body whose every & starts &lt;, &gt; or &amp;,
\* parsing the rendering of its tree succeeds and returns an equal tree.
RoundTrip ==
    (pc = "reparsed" /\ NoBlankBodies(written) /\ AmpersandsHandled(ssml))
    => (result2.err = <<>> /\ NodeEq(result2.node, result.node))

RECURSIVE decodePieces(_, _)
\* the text the pieces stand for: each entity its character, the rest as typed
decodePieces(w, j) ==
    IF j > Len(w) THEN <<>>
    ELSE (IF w[j].chars = <<"&","l","t",";">> THEN <<"<">>
          ELSE IF w[j].chars = <<"&","g","t",";">> THEN <<">">>
          ELSE IF w[j].chars = <<"&","a","m","p",";">> THEN <<"&">>
          ELSE w[j].chars) \o decodePieces(w, j + 1)

\* C2: entity round trip. A text of plain characters and the three entities
\* decodes to its characters (&lt; to <, &gt; to >, &amp; to &), and rendering
\* the Text node gives the text back; 'a < b & c > d' renders as
\* 'a &lt; b &amp; c &gt; d'.
EntityRoundTrip ==
    /\ (pc \in {"parsed", "rendered"}
            /\ \A j \in 1..Len(written) : written[j].chars \in TextPieces)
           => result.node.text = decodePieces(written, 1)
    /\ pc = "rendered" => text = ssml
    /\ (pc = "rendered" /\ result.node.text = <<"a"," ","<"," ","b"," ","&"," ","c"," ",">"," ","d">>)
           => text = <<"a"," ","&","l","t",";"," ","b"," ","&","a","m","p",";"," ","c"," ","&","g","t",";"," ","d">>

\* C3: whenever the parser meets a closing tag that does not name the
\* innermost open element (the root speak at the top level of the body),
\* parseSSML fails with the mismatched-tags error.
MismatchedTagRejected ==
    (/\ pc = "parsed"
     /\ result.err # MissingRoot
     /\ SpeakCloses(written) # {}
     /\ meetsMismatch(BodyOf(written), 1, <<>>))
    => result.err = MismatchedTags

\* C4: parseSSML fails with the must-be-wrapped error on every document that
\* does not open with a tag named speak (in any case) or holds no </speak>,
\* and returns a tree only for documents whose opening tag is named speak.
MissingRootRejected ==
    /\ (pc = "parsed" /\ ~WrappedInSpeak(written)) => result.err = MissingRoot
    /\ Returned => lower(written[1].name) = <<"s","p","e","a","k">>

SpacesExample == <<"<","s","p","e","a","k",">"," "," ","<","b","r","e","a","k","/",">"," "," ","<","/","s","p","e","a","k",">">>

\* C5: no Text node of a returned tree is empty or whitespace alone, a run of
\* whitespace between tags yields no node (the tree has at most one Text node
\* per written run of text holding a non-whitespace character), and
\* '<speak>  <break/>  </speak>' yields a root with exactly one child.
WhitespaceTextDropped ==
    Returned =>
        /\ \A j \in 1..Len(TreeTexts(result.node)) :
               \E k \in 1..Len(TreeTexts(result.node)[j]) :
                   ~isspace(TreeTexts(result.node)[j][k])
        /\ Len(TreeTexts(result.node)) <= NonBlankRuns(written)
        /\ ssml = SpacesExample =>
               /\ Len(result.node.children) = 1
               /\ result.node.children[1].kind = "SSMLTag"

\* C5 happens: the example has been parsed and its root has the break alone
WhitespaceTextDroppedWitness ==
    /\ Returned
    /\ ssml = SpacesExample
    /\ result.node.children = <<SSMLTag(<<"b","r","e","a","k">>, <<>>, <<>>)>>

\* C6: the root of a returned tree is named speak, every element (in document
\* order, the root first) is named by the lowercase form of the name written
\* in its tag, closing tags match opening tags in any case, and every
\* attribute stored has its key and its value exactly as written.
CaseNormalized ==
    /\ Returned =>
           /\ result.node.name = <<"s","p","e","a","k">>
           /\ IsPrefix([j \in 1..Len(TreeTags(result.node)) |->
                            TreeTags(result.node)[j].name],
                       [j \in 1..Len(WrittenTags(written)) |->
                            lower(WrittenTags(written)[j].name)])
           /\ \A j \in 1..Len(TreeTags(result.node)) :
                  Range(TreeTags(result.node)[j].attributes)
                      \subseteq Range(ExpectedDict(WrittenTags(written)[j].attrs))
    /\ (pc = "parsed" /\ WrappedInSpeak(written)
            /\ wellNested(BodyOf(written), 1, <<>>))
           => result.err = <<>>

RECURSIVE expectedAttrs(_, _)
\* each attribute preceded by one space, its value in double quotes
expectedAttrs(d, j) ==
    IF j > Len(d) THEN <<>>
    ELSE <<" ">> \o d[j][1] \o <<"=","\"">> \o d[j][2] \o <<"\"">> \o expectedAttrs(d, j + 1)

\* C7: every element of a returned tree (root or nested) holds the attributes
\* written in its tag in the order written, a repeated name once with the
\* value written last, and ssmlNodeToText renders them in that order, each
\* after one space and in double quotes.
AttributeOrderPreserved ==
    pc = "rendered" =>
        /\ \A j \in 1..Len(TreeTags(result.node)) :
               LET e == TreeTags(result.node)[j]
                   d == ExpectedDict(WrittenTags(written)[j].attrs)
               IN  /\ e.attributes = d
                   /\ ssmlNodeToText(SSMLTag(e.name, e.attributes, <<>>))
                          = <<"<">> \o e.name \o expectedAttrs(d, 1) \o <<" ","/",">">>
        /\ IsPrefix(<<"<","s","p","e","a","k">> \o expectedAttrs(ExpectedDict(written[1].attrs), 1), text)

\* C8: an element whose children render to an empty or whitespace-only string
\* (Text nodes of whitespace alone, or no children) renders as the element
\* without children does, in the self-closing form '<n attrs />'; the
\* open/close form '<n attrs>...</n>' is emitted only when the rendered
\* children hold a non-whitespace character.
SelfClosingWhenBlank ==
    (pc = "rendered" /\ result.node.kind = "SSMLTag") =>
        LET n == result.node
            rendered == joinChildren(n.children, 1)
            selfClosing == <<"<">> \o n.name \o expectedAttrs(n.attributes, 1) \o <<" ","/",">">>
            openClose == <<"<">> \o n.name \o expectedAttrs(n.attributes, 1) \o <<">">>
                         \o rendered \o <<"<","/">> \o n.name \o <<">">>
        IN  /\ (\A j \in 1..Len(n.children) :
                    n.children[j].kind = "SSMLText" /\ IsBlank(n.children[j].text))
                   => IsBlank(rendered)
            /\ IsBlank(rendered) =>
                   /\ text = selfClosing
                   /\ text = ssmlNodeToText(SSMLTag(n.name, n.attributes, <<>>))
            /\ text \in {selfClosing, openClose}
            /\ text = openClose => ~IsBlank(rendered)

\* C8 happens: an element with a child of spaces alone has been rendered
SelfClosingWhenBlankWitness ==
    /\ pc = "rendered"
    /\ result.node.kind = "SSMLTag"
    /\ result.node.children = <<SSMLText(<<" "," "," ">>)>>
    /\ text = <<"<","b","r","e","a","k"," ","/",">">>

\* C9: the body handed to the recursive parser is what lies between the
\* opening root tag and the rightmost </speak>, and when the body holds an
\* earlier </speak> the tree still represents what was written after it:
\* every tag and every run of text of the body is in the tree.
RootClosedByLastOccurrence ==
    (Returned /\ WrappedInSpeak(written)) =>
        /\ speakContent(strip(ssml)) = strip(Join(BodyOf(written), 1))
        /\ Cardinality(SpeakCloses(written)) > 1 =>
               /\ Len(TreeTags(result.node)) = 1 + Len(WrittenTags(BodyOf(written)))
               /\ Len(TreeTexts(result.node)) = NonBlankRuns(BodyOf(written))

\* C10: when the opening root tag holds attribute text between the name
\* speak and its >, after whatever whitespace character, the root's
\* attributes are parse_attributes of that text; they are empty only when
\* there is no attribute text.
RootAttributesPopulated ==
    (Returned /\ lower(written[1].name) = <<"s","p","e","a","k">>) =>
        LET s == strip(ssml)
            attr_text == strip(Slice(s, 6, find(s, <<">">>, 0)))
        IN  /\ result.node.attributes = parse_attributes(attr_text).attrs
            /\ result.node.attributes = <<>> => attr_text = <<>>

====
